---- MODULE Spec2Model ----
(***************************************************************************)
(* Model of the two subscription pipelines of the repository,              *)
(* src/collector.py and src/update_configs.py.                             *)
(*                                                                         *)
(* A text is a sequence of tokens.  A token stands for a character or for  *)
(* an indivisible run of characters ("vless", "://", "443", "h1", ...).    *)
(* The string operations of the code (split, rsplit, find, replace,        *)
(* startswith, lower) are modelled on token sequences.  A base64 text is   *)
(* the token "b64" followed by the tokens of the text it decodes to and an *)
(* optional "=" padding token; a JSON value is a token ("443" a number,    *)
(* "s:h1" the string h1).  A file is a sequence of lines, a line is a     *)
(* text without its line terminator.                                       *)
(***************************************************************************)
EXTENDS Integers, Sequences, FiniteSets, TLC

(***************************************************************************)
(* Generic text helpers                                                    *)
(***************************************************************************)
Take(s, n) == SubSeq(s, 1, n)

Drop(s, n) == SubSeq(s, n + 1, Len(s))

Contains(s, t) == \E i \in 1..Len(s) : s[i] = t

\* str.find(t) + 1 : position of the first occurrence, 0 when absent
IndexOf(s, t) ==
  IF Contains(s, t) THEN CHOOSE i \in 1..Len(s) : s[i] = t /\ \A j \in 1..(i - 1) : s[j] # t
  ELSE 0

\* str.rfind(t) + 1 : position of the last occurrence, 0 when absent
LastIndexOf(s, t) ==
  IF Contains(s, t) THEN CHOOSE i \in 1..Len(s) : s[i] = t /\ \A j \in (i + 1)..Len(s) : s[j] # t
  ELSE 0

StartsWith(s, p) == Len(s) >= Len(p) /\ Take(s, Len(p)) = p

RECURSIVE ConcatAll(_)
ConcatAll(ss) == IF ss = <<>> THEN <<>> ELSE Head(ss) \o ConcatAll(Tail(ss))

RECURSIVE SeqFilterIn(_, _)
SeqFilterIn(s, S) ==
  IF s = <<>> THEN <<>>
  ELSE (IF Head(s) \in S THEN <<Head(s)>> ELSE <<>>) \o SeqFilterIn(Tail(s), S)

Range(s) == {s[i] : i \in 1..Len(s)}

\* str.lower() on one token
LowerTok(t) ==
  CASE t = "VLESS" -> "vless"
    [] t = "VMESS" -> "vmess"
    [] t = "HY2" -> "hy2"
    [] t = "H1" -> "h1"
    [] t = "BASE64:" -> "base64:"
    [] OTHER -> t

Lower(s) == [i \in 1..Len(s) |-> LowerTok(s[i])]

(***************************************************************************)
(* Configuration                                                           *)
(***************************************************************************)
\* collector.SUBSCRIPTION_URLS and update_configs.SOURCES : two locations each
SOURCES == <<"src1", "src2">>

\* collector.REMARK_NAME as a JSON string and percent-quoted
REMARK_NAME == "s:REMARK_C"

REMARK_NAME_QUOTED == "REMARK_C%"

\* update_configs.REMARK as a JSON string and percent-quoted
REMARK == "s:REMARK_U"

REMARK_QUOTED == "REMARK_U%"

DEFAULT_PROFILE_TITLE_BASE64 == "T0="

REDIRECT_SUBSCRIPTION_URL == "1kb.link"

HEALTH_CHECK_WORKERS == 40

SEMAPHORE_SLOTS == 50

(***************************************************************************)
(* Python values.  A JSON value is one token: a number ("443", "0"), a     *)
(* string ("s:h1"; "s:" is the empty string) or "None" for a missing key.  *)
(* A value held by the code is tagged: PyStr(s) is a str made of the       *)
(* tokens s, PyVal(t) is the JSON value or int t.                          *)
(***************************************************************************)
PyStr(s) == [py |-> "str", s |-> s]

PyVal(t) == [py |-> "val", s |-> <<t>>]

PyNone == PyVal("None")

\* the tokens int(...) accepts, and the int they denote (kept as the token)
IsNumeral(t) == t \in {"443", "80", "0"}

\* bool(v) of a JSON value
JsonTruthy(t) == t \notin {"None", "0", "s:"}

\* bool(v)
Truthy(v) == IF v.py = "str" THEN v.s # <<>> ELSE JsonTruthy(v.s[1])

\* str(v) of a JSON value, as tokens
FormatTok(t) ==
  CASE t = "s:" -> <<>>
    [] t = "s:h1" -> <<"h1">>
    [] t = "s:H1" -> <<"H1">>
    [] t = "s:h2" -> <<"h2">>
    [] t = "s:443" -> <<"443">>
    [] t = "s:0" -> <<"0">>
    [] t = "s:abc" -> <<"abc">>
    [] OTHER -> <<t>>

\* f"{v}"
Format(v) == IF v.py = "str" THEN v.s ELSE FormatTok(v.s[1])

(***************************************************************************)
(* dict : a sequence of <<key, value>> pairs in insertion order            *)
(***************************************************************************)
DictHas(d, k) == \E i \in 1..Len(d) : d[i][1] = k

\* d.get(k)
DictGet(d, k) ==
  IF DictHas(d, k) THEN d[CHOOSE i \in 1..Len(d) : d[i][1] = k][2] ELSE "None"

\* d[k] = v : an existing key keeps its position, a new key goes last
DictSet(d, k, v) ==
  IF DictHas(d, k) THEN [i \in 1..Len(d) |-> IF d[i][1] = k THEN <<k, v>> ELSE d[i]]
  ELSE Append(d, <<k, v>>)

DictKeys(d) == {d[i][1] : i \in 1..Len(d)}

\* a rewrite that stores the remark under another key
SetLabelOtherKey(config, remark) == DictSet(config, "remark", remark)

\* config['ps'] = REMARK_NAME, data["ps"] = REMARK
SetLabel(config, remark) == DictSet(config, "ps", remark)

(***************************************************************************)
(* json and base64                                                         *)
(***************************************************************************)
RECURSIVE PairsOf(_)
PairsOf(toks) ==
  IF Len(toks) < 2 THEN <<>>
  ELSE LET rest == PairsOf(Take(toks, Len(toks) - 2))
       IN  DictSet(rest, toks[Len(toks) - 1], toks[Len(toks)])

\* json.loads : t is "obj", "list", "num", "str", or "err" when it raises
JsonLoads(text) ==
  LET n == Len(text) IN
  IF n >= 2 /\ text[1] = "{" /\ text[n] = "}" /\ (n - 2) % 2 = 0
    THEN [t |-> "obj", kv |-> PairsOf(SubSeq(text, 2, n - 1)), v |-> <<>>]
  ELSE IF n >= 2 /\ text[1] = "[" /\ text[n] = "]"
    THEN [t |-> "list", kv |-> <<>>, v |-> SubSeq(text, 2, n - 1)]
  ELSE IF n = 1 /\ IsNumeral(text[1])
    THEN [t |-> "num", kv |-> <<>>, v |-> text]
  ELSE IF n = 1 /\ text[1] \in {"s:", "s:abc"}
    THEN [t |-> "str", kv |-> <<>>, v |-> text]
  ELSE [t |-> "err", kv |-> <<>>, v |-> <<>>]

\* bool(x) of a decoded JSON document
JsonDocTruthy(j) ==
  CASE j.t = "obj" -> j.kv # <<>>
    [] j.t = "list" -> j.v # <<>>
    [] j.t = "num" -> j.v # <<"0">>
    [] j.t = "str" -> j.v # <<"s:">>
    [] OTHER -> FALSE

RECURSIVE FlattenPairs(_)
FlattenPairs(d) ==
  IF d = <<>> THEN <<>> ELSE <<Head(d)[1], Head(d)[2]>> \o FlattenPairs(Tail(d))

\* json.dumps of a dict : keys in insertion order
JsonDumps(d) == <<"{">> \o FlattenPairs(d) \o <<"}">>

RECURSIVE StripPad(_)
StripPad(s) ==
  IF s # <<>> /\ s[Len(s)] = "=" THEN StripPad(Take(s, Len(s) - 1)) ELSE s

\* the encoded length is a multiple of 4 only with padding
NeedsPad(text) == Len(text) % 3 # 0

\* base64.b64decode / urlsafe_b64decode of a payload whose missing padding was
\* restored : ok is FALSE when it raises
B64Decode(payload) ==
  IF payload # <<>> /\ payload[1] = "b64"
    THEN [ok |-> TRUE, text |-> StripPad(Tail(payload))]
    ELSE [ok |-> FALSE, text |-> <<>>]

\* base64.b64encode : padded
B64Encode(text) == <<"b64">> \o text \o (IF NeedsPad(text) THEN <<"=">> ELSE <<>>)

\* urlsafe_b64encode(...).rstrip("=")
B64EncodeStripped(text) == <<"b64">> \o text

(***************************************************************************)
(* collector.py : decoding and label rewriting                             *)
(***************************************************************************)
\* the (None, None, None) both parsers return on failure
ParseFail == [ok |-> FALSE, link |-> <<>>, host |-> PyNone, port |-> PyNone]

\* str.replace(a + b, "") for the two-token text <<a, b>>
RECURSIVE RemoveAll(_, _, _)
RemoveAll(s, a, b) ==
  IF Len(s) < 2 THEN s
  ELSE IF s[1] = a /\ s[2] = b THEN RemoveAll(Drop(s, 2), a, b)
  ELSE <<s[1]>> \o RemoveAll(Tail(s), a, b)

\* config.get('add') or config.get('host')
VmessHostOf(d) ==
  IF JsonTruthy(DictGet(d, "add")) THEN DictGet(d, "add") ELSE DictGet(d, "host")

\* parse_vmess : every exception inside is caught and gives ParseFail
parse_vmess(vmess_url) ==
  LET b64_part == RemoveAll(vmess_url, "vmess", "://")
      dec      == B64Decode(b64_part)
      config   == JsonLoads(dec.text)
  IN  IF ~dec.ok \/ config.t # "obj" THEN ParseFail
      ELSE LET renamed == SetLabel(config.kv, REMARK_NAME)
               new_b64 == B64Encode(JsonDumps(renamed))
           IN  [ok   |-> TRUE,
                link |-> <<"vmess", "://">> \o new_b64,
                host |-> PyVal(VmessHostOf(renamed)),
                port |-> PyVal(DictGet(renamed, "port"))]

\* int(port) : ok is FALSE on ValueError
IntOf(v) ==
  IF v.py = "val" THEN [ok |-> IsNumeral(v.s[1]), v |-> v]
  ELSE IF Len(v.s) = 1 /\ IsNumeral(v.s[1]) THEN [ok |-> TRUE, v |-> PyVal(v.s[1])]
  ELSE [ok |-> FALSE, v |-> PyNone]

\* lines 98-117 of parse_general : host and port of "host:port" or "[v6]:port"
SplitHostPort(host_port) ==
  IF host_port # <<>> /\ host_port[1] = "["
    THEN LET end_bracket == IndexOf(host_port, "]") IN
         IF end_bracket = 0 THEN [ok |-> FALSE, host |-> <<>>, port |-> PyNone]
         ELSE LET remaining == Drop(host_port, end_bracket) IN
              [ok   |-> TRUE,
               host |-> SubSeq(host_port, 2, end_bracket - 1),
               port |-> IF remaining # <<>> /\ remaining[1] = ":"
                          THEN PyStr(Tail(remaining)) ELSE PyVal("443")]
    ELSE IF Contains(host_port, ":")
      THEN LET c == LastIndexOf(host_port, ":") IN
           [ok |-> TRUE, host |-> Take(host_port, c - 1), port |-> PyStr(Drop(host_port, c))]
      ELSE [ok |-> TRUE, host |-> host_port, port |-> PyVal("443")]

\* parse_general
parse_general(url, protocol) ==
  LET base_url == IF Contains(url, "#") THEN Take(url, IndexOf(url, "#") - 1) ELSE url
      new_url  == base_url \o <<"#", REMARK_NAME_QUOTED>>
      body     == RemoveAll(url, protocol, "://")
      auth_host_port ==
        IF Contains(body, "?") THEN Take(body, IndexOf(body, "?") - 1)
        ELSE IF Contains(body, "#") THEN Take(body, IndexOf(body, "#") - 1)
        ELSE body
      host_port ==
        IF Contains(auth_host_port, "@")
          THEN Drop(auth_host_port, LastIndexOf(auth_host_port, "@"))
          ELSE auth_host_port
      hp   == SplitHostPort(host_port)
      port == IntOf(hp.port)
  IN  IF ~hp.ok \/ ~port.ok THEN ParseFail
      ELSE [ok |-> TRUE, link |-> new_url, host |-> PyStr(hp.host), port |-> port.v]

GENERAL_PROTOCOLS == {"vless", "tuic", "hysteria", "hysteria2", "hy2"}

\* line.split('://')[0] if '://' in line else None, as a text (<<>> for None)
ProtocolOf(line) ==
  IF Contains(line, "://") THEN Take(line, IndexOf(line, "://") - 1) ELSE <<>>

\* lines 139-148 of process_configs : the parser chosen by the scheme
ParseLine(line) ==
  LET protocol == ProtocolOf(line) IN
  IF protocol = <<"vmess">> THEN parse_vmess(line)
  ELSE IF Len(protocol) = 1 /\ protocol[1] \in GENERAL_PROTOCOLS
    THEN parse_general(line, protocol[1])
  ELSE ParseFail

\* the deduplication key f"{protocol}:{host}:{port}"
DedupKey(line, r) == ProtocolOf(line) \o <<":">> \o Format(r.host) \o <<":">> \o Format(r.port)

\* if link and host and port
Accepted(r) == r.ok /\ r.link # <<>> /\ Truthy(r.host) /\ Truthy(r.port)

\* process_configs over the non-empty lines of the content : the list of
\* accepted descriptors, first occurrence of each key
RECURSIVE process_configs_from(_, _, _)
process_configs_from(lines, configs, seen) ==
  IF lines = <<>> THEN configs
  ELSE LET line == Head(lines)
           r    == ParseLine(line)
           key  == DedupKey(line, r)
       IN  IF line # <<>> /\ Accepted(r) /\ key \notin seen
             THEN process_configs_from(Tail(lines),
                    Append(configs, [link |-> r.link, host |-> r.host,
                                     port |-> r.port, original |-> line]),
                    seen \cup {key})
             ELSE process_configs_from(Tail(lines), configs, seen)

process_configs(content) == process_configs_from(content, <<>>, {})

(***************************************************************************)
(* update_configs.py : decoding and label rewriting                        *)
(***************************************************************************)
U_PREFIXES == {"vmess", "vless", "hy2", "hysteria2"}

\* stripped.lower().startswith(("vmess://", "vless://", "hy2://", "hysteria2://"))
HasKnownPrefix(line) ==
  Len(line) >= 2 /\ LowerTok(line[1]) \in U_PREFIXES /\ line[2] = "://"

\* lines 176-187 of fetch_source : the lines kept from a fetched text
RECURSIVE KeptLines(_)
KeptLines(text) ==
  IF text = <<>> THEN <<>>
  ELSE LET stripped == Head(text) IN
       (IF stripped # <<>> /\ stripped[1] # "#" /\ HasKnownPrefix(stripped)
          THEN <<stripped>> ELSE <<>>) \o KeptLines(Tail(text))

\* _decode_vmess_payload : t = "err" stands for the None it returns on any exception
_decode_vmess_payload(payload) ==
  LET dec == B64Decode(payload) IN
  IF dec.ok THEN JsonLoads(dec.text) ELSE [t |-> "err", kv |-> <<>>, v |-> <<>>]

\* _encode_vmess_payload
_encode_vmess_payload(data) == B64EncodeStripped(JsonDumps(data))

\* _remark_vmess : r is "ok", "none" (returns None) or "raise" (data["ps"] = REMARK
\* on a value that is not a dict raises TypeError, which nothing catches)
_remark_vmess(config) ==
  LET data == _decode_vmess_payload(Drop(config, 2)) IN
  IF ~JsonDocTruthy(data) THEN [r |-> "none", s |-> <<>>]
  ELSE IF data.t # "obj" THEN [r |-> "raise", s |-> <<>>]
  ELSE [r |-> "ok",
        s |-> <<"vmess", "://">> \o _encode_vmess_payload(SetLabel(data.kv, REMARK))]

\* position of the first of "/", "?", "#" in s, Len(s) + 1 when there is none
RECURSIVE NetlocEnd(_, _)
NetlocEnd(s, i) ==
  IF i > Len(s) \/ s[i] \in {"/", "?", "#"} THEN i ELSE NetlocEnd(s, i + 1)

\* urllib.parse.urlsplit of "scheme://..." : ok is FALSE when it raises ValueError
\* (a netloc with "[" and no "]", or "]" and no "[")
urlsplit(url) ==
  LET rest     == Drop(url, 2)
      e        == NetlocEnd(rest, 1)
      netloc   == Take(rest, e - 1)
      after    == Drop(rest, e - 1)
      h        == IndexOf(after, "#")
      nofrag   == IF h = 0 THEN after ELSE Take(after, h - 1)
      fragment == IF h = 0 THEN <<>> ELSE Drop(after, h)
      q        == IndexOf(nofrag, "?")
      path     == IF q = 0 THEN nofrag ELSE Take(nofrag, q - 1)
      query    == IF q = 0 THEN <<>> ELSE Drop(nofrag, q)
  IN  [ok       |-> Contains(netloc, "[") = Contains(netloc, "]"),
       scheme   |-> LowerTok(url[1]),
       netloc   |-> netloc,
       path     |-> path,
       query    |-> query,
       fragment |-> fragment]

\* urllib.parse.urlunsplit : an empty query or fragment is left out
urlunsplit(p) ==
  (IF p.netloc # <<>> THEN <<p.scheme, "://">> \o p.netloc ELSE <<p.scheme, ":">>)
    \o p.path
    \o (IF p.query # <<>> THEN <<"?">> \o p.query ELSE <<>>)
    \o (IF p.fragment # <<>> THEN <<"#">> \o p.fragment ELSE <<>>)

\* _remark_url_fragment : the ValueError of urlsplit is not caught
_remark_url_fragment(config) ==
  LET parsed == urlsplit(config) IN
  IF ~parsed.ok THEN [r |-> "raise", s |-> <<>>]
  ELSE [r |-> "ok", s |-> urlunsplit([parsed EXCEPT !.fragment = <<REMARK_QUOTED>>])]

\* normalize_config
normalize_config(config) ==
  IF Len(config) >= 2 /\ LowerTok(config[1]) = "vmess" /\ config[2] = "://"
    THEN _remark_vmess(config)
  ELSE IF Len(config) >= 2 /\ LowerTok(config[1]) \in {"vless", "hy2", "hysteria2"}
          /\ config[2] = "://"
    THEN _remark_url_fragment(config)
  ELSE [r |-> "none", s |-> <<>>]

\* the text after the first ":" of s, empty when there is none
AfterColon(s) == IF Contains(s, ":") THEN Drop(s, IndexOf(s, ":")) ELSE <<>>

\* SplitResult._hostinfo for "[host]:port", given the text after the "["
BracketParts(bracketed) ==
  IF Contains(bracketed, "]")
    THEN [hostname |-> Take(bracketed, IndexOf(bracketed, "]") - 1),
          port     |-> AfterColon(Drop(bracketed, IndexOf(bracketed, "]")))]
    ELSE [hostname |-> bracketed, port |-> <<>>]

\* SplitResult._hostinfo : the netloc after its last "@", cut at the first ":"
HostInfoParts(hostinfo) ==
  IF Contains(hostinfo, "[") THEN BracketParts(Drop(hostinfo, IndexOf(hostinfo, "[")))
  ELSE [hostname |-> IF Contains(hostinfo, ":")
                       THEN Take(hostinfo, IndexOf(hostinfo, ":") - 1) ELSE hostinfo,
        port     |-> AfterColon(hostinfo)]

\* lines 250-254 : .hostname is lower-cased, .port raises ValueError unless it is
\* empty or a number
HostPortOf(parts) ==
  IF parts.port # <<>> /\ ~(Len(parts.port) = 1 /\ IsNumeral(parts.port[1]))
    THEN [r |-> "raise", host |-> <<>>, port |-> "None"]
  ELSE IF parts.hostname = <<>> \/ parts.port = <<>>
    THEN [r |-> "none", host |-> <<>>, port |-> "None"]
  ELSE [r |-> "ok", host |-> Lower(parts.hostname), port |-> parts.port[1]]

NetlocHostPort(netloc) == HostPortOf(HostInfoParts(Drop(netloc, LastIndexOf(netloc, "@"))))

\* _parse_host_port_from_url : r is "ok", "none" (it returns None) or "raise"
\* (urlsplit or .port raises ValueError)
_parse_host_port_from_url(config) ==
  IF urlsplit(config).ok THEN NetlocHostPort(urlsplit(config).netloc)
  ELSE [r |-> "raise", host |-> <<>>, port |-> "None"]

\* lines 262-269 : host and port of the decoded payload; int(port) raising is caught
VmessHostPort(host, port) ==
  IF ~JsonTruthy(host) \/ port = "None"
    THEN [r |-> "none", host |-> <<>>, port |-> "None"]
  ELSE IF Len(FormatTok(port)) = 1 /\ IsNumeral(FormatTok(port)[1])
    THEN [r |-> "ok", host |-> FormatTok(host), port |-> FormatTok(port)[1]]
  ELSE [r |-> "none", host |-> <<>>, port |-> "None"]

\* lines 258-261 : data.get on a value that is not a dict raises AttributeError
VmessDataHostPort(data) ==
  IF ~JsonDocTruthy(data) THEN [r |-> "none", host |-> <<>>, port |-> "None"]
  ELSE IF data.t # "obj" THEN [r |-> "raise", host |-> <<>>, port |-> "None"]
  ELSE VmessHostPort(DictGet(data.kv, "add"), DictGet(data.kv, "port"))

\* _parse_host_port_from_vmess
_parse_host_port_from_vmess(config) == VmessDataHostPort(_decode_vmess_payload(Drop(config, 2)))

(***************************************************************************)
(* Ordering of texts, set(...) and sorted(..., key=str.lower)              *)
(***************************************************************************)
\* the order of the tokens as strings compare
TokRank(t) ==
  CASE t = "#" -> 1
    [] t = "0" -> 2
    [] t = "443" -> 3
    [] t = "80" -> 4
    [] t = ":" -> 5
    [] t = "://" -> 6
    [] t = "<script>" -> 7
    [] t = "=" -> 8
    [] t = "?" -> 9
    [] t = "@" -> 10
    [] t = "H1" -> 11
    [] t = "HY2" -> 12
    [] t = "VLESS" -> 13
    [] t = "VMESS" -> 14
    [] t = "[" -> 15
    [] t = "]" -> 16
    [] t = "b64" -> 17
    [] t = "h1" -> 18
    [] t = "h2" -> 19
    [] t = "hy2" -> 20
    [] t = "vless" -> 21
    [] t = "vmess" -> 22
    [] OTHER -> 23

\* a < b for texts, token by token
RECURSIVE TextLess(_, _)
TextLess(a, b) ==
  IF b = <<>> THEN FALSE
  ELSE IF a = <<>> THEN TRUE
  ELSE IF TokRank(Head(a)) # TokRank(Head(b)) THEN TokRank(Head(a)) < TokRank(Head(b))
  ELSE TextLess(Tail(a), Tail(b))

\* first occurrences of xs, in order
RECURSIVE FirstOccurrences(_, _)
FirstOccurrences(xs, seen) ==
  IF xs = <<>> THEN <<>>
  ELSE IF Head(xs) \in seen THEN FirstOccurrences(Tail(xs), seen)
  ELSE <<Head(xs)>> \o FirstOccurrences(Tail(xs), seen \cup {Head(xs)})

\* the two orders used below: by lower-cased text, and the order of the slots
LessBy(mode, a, b) ==
  IF mode = "lower" THEN TextLess(Lower(a), Lower(b)) ELSE TextLess(b, a)

\* list insertion keeping the order; equal keys keep their order
RECURSIVE InsertSorted(_, _, _)
InsertSorted(sorted, x, mode) ==
  IF sorted = <<>> THEN <<x>>
  ELSE IF LessBy(mode, x, Head(sorted)) THEN <<x>> \o sorted
  ELSE <<Head(sorted)>> \o InsertSorted(Tail(sorted), x, mode)

RECURSIVE StableSort(_, _)
StableSort(xs, mode) ==
  IF xs = <<>> THEN <<>>
  ELSE InsertSorted(StableSort(Take(xs, Len(xs) - 1), mode), xs[Len(xs)], mode)

\* iteration order of set(xs).  The order of a CPython set is the order of the
\* slots of its hash table: with layout "slots" every element sits in the slot of
\* its own hash and the order does not depend on the insertions; with layout
\* "probe" the elements collide and the one inserted first takes the first slot.
SetIter(xs, layout) ==
  IF layout = "probe" THEN FirstOccurrences(xs, {})
  ELSE StableSort(FirstOccurrences(xs, {}), "slots")

\* sorted(set(xs), key=lambda x: x.lower())
SortedSetLower(xs, layout) == StableSort(SetIter(xs, layout), "lower")

(***************************************************************************)
(* Reachability probes.  The network decides a probe nondeterministically; *)
(* these are the results a probe of the descriptor can have.               *)
(***************************************************************************)
\* a TCP connection to the port can succeed
Connectable(port) == IsNumeral(port) /\ port # "0"

\* tcp_ping(config['host'], config['port']) : every exception gives False
tcp_ping_results(cfg) ==
  IF Len(Format(cfg.port)) = 1 /\ Connectable(Format(cfg.port)[1])
     /\ (cfg.host.py = "str" \/ ~IsNumeral(cfg.host.s[1]))
    THEN {"true", "false"} ELSE {"false"}

\* _tcp_connectable(host, port)
_tcp_connectable_results(port) == IF Connectable(port) THEN {"true", "false"} ELSE {"false"}

\* _resolvable(host)
_resolvable_results == {"true", "false"}

\* the results of a probe of the parsed endpoint hp that ends in a TCP connection
TcpProbe(hp) ==
  IF hp.r = "ok" THEN _tcp_connectable_results(hp.port)
  ELSE IF hp.r = "raise" THEN {"raise"} ELSE {"false"}

\* the results of a probe of the parsed endpoint hp that ends in a DNS lookup
DnsProbe(hp) ==
  IF hp.r = "ok" THEN _resolvable_results
  ELSE IF hp.r = "raise" THEN {"raise"} ELSE {"false"}

\* the scheme is_healthy and normalize_config see : lowered.startswith(...)
SchemeOf(config) ==
  IF Len(config) >= 2 /\ config[2] = "://" THEN LowerTok(config[1]) ELSE ""

\* is_healthy(config) : "raise" when the worker's call raises
is_healthy_results(config) ==
  CASE SchemeOf(config) = "vmess" -> TcpProbe(_parse_host_port_from_vmess(config))
    [] SchemeOf(config) = "vless" -> TcpProbe(_parse_host_port_from_url(config))
    [] SchemeOf(config) \in {"hy2", "hysteria2"} -> DnsProbe(_parse_host_port_from_url(config))
    [] OTHER -> {"false"}

(***************************************************************************)
(* The artifact Index.html : [exists, lines]                               *)
(***************************************************************************)
NoFile == [exists |-> FALSE, lines |-> <<>>]

File(lines) == [exists |-> TRUE, lines |-> lines]

\* line.startswith('#')
IsComment(line) == line # <<>> /\ line[1] = "#"

\* line.strip() == ""
IsBlank(line) == line = <<>>

\* '<script>' in line
HasScript(line) == Contains(line, "<script>")

\* collector.update_index_file, lines 221-236 : the leading comment and blank lines
RECURSIVE header_part(_)
header_part(lines) ==
  IF lines # <<>> /\ (IsComment(Head(lines)) \/ IsBlank(Head(lines)))
    THEN <<Head(lines)>> \o header_part(Tail(lines))
    ELSE <<>>

\* collector.update_index_file, lines 238-252 : from the last line holding
\* '<script>' to the end of the file
script_part(lines) ==
  IF \E j \in 1..Len(lines) : HasScript(lines[j])
    THEN LET j == CHOOSE k \in 1..Len(lines) :
                    HasScript(lines[k]) /\ \A m \in (k + 1)..Len(lines) : ~HasScript(lines[m])
         IN  SubSeq(lines, j, Len(lines))
    ELSE <<>>

\* collector.update_index_file(new_configs) : the file after the call
C_update_index_file(file, new_configs) ==
  IF ~file.exists THEN file
  ELSE LET hdr == header_part(file.lines) IN
       File(hdr
            \o (IF hdr # <<>> /\ ~IsBlank(hdr[Len(hdr)]) THEN << <<>> >> ELSE <<>>)
            \o new_configs
            \o << <<>> >>
            \o script_part(file.lines))

\* the mock descriptor of collector.main, line 290
MOCK_CONFIG == <<"vless", "://", "mock-uuid", "@", "mock-host", ":", "443", "?", "q", "#", "SHEN">>

\* update_configs.read_existing_meta : default_meta
DEFAULT_META ==
  << <<"#", "profile-title:", "base64:", DEFAULT_PROFILE_TITLE_BASE64>>,
     <<"#", "profile-update-interval:">>,
     <<"#", "subscription-userinfo:">>,
     <<"#", "support-url:">>,
     <<"#", "profile-web-page-url:">> >>

RECURSIVE LeadingComments(_)
LeadingComments(lines) ==
  IF lines # <<>> /\ IsComment(Head(lines))
    THEN <<Head(lines)>> \o LeadingComments(Tail(lines))
    ELSE <<>>

\* update_configs.read_existing_meta
read_existing_meta(file) ==
  IF ~file.exists THEN DEFAULT_META
  ELSE IF LeadingComments(file.lines) # <<>> THEN LeadingComments(file.lines)
  ELSE DEFAULT_META

\* a line _extract_profile_title_base64 takes the title from
IsTitleLine(line) ==
  /\ Len(line) >= 2
  /\ LowerTok(line[1]) = "#"
  /\ LowerTok(line[2]) = "profile-title:"
  /\ Contains(Lower(line), "base64:")

\* _extract_profile_title_base64 : ok is FALSE when "_, value = line.split(...)"
\* raises ValueError (the line holds "base64:" only in another letter case)
RECURSIVE _extract_profile_title_base64(_)
_extract_profile_title_base64(meta_lines) ==
  IF meta_lines = <<>> THEN [ok |-> TRUE, title |-> <<DEFAULT_PROFILE_TITLE_BASE64>>]
  ELSE LET line == Head(meta_lines) IN
       IF IsTitleLine(line)
         THEN IF ~Contains(line, "base64:") THEN [ok |-> FALSE, title |-> <<>>]
              ELSE LET value == Drop(line, IndexOf(line, "base64:")) IN
                   IF value # <<>> THEN [ok |-> TRUE, title |-> value]
                   ELSE _extract_profile_title_base64(Tail(meta_lines))
         ELSE _extract_profile_title_base64(Tail(meta_lines))

\* build_redirect_lines
build_redirect_lines(meta_lines) ==
  LET redirect_url == <<"hiddify://import/", REDIRECT_SUBSCRIPTION_URL, "#">>
                        \o _extract_profile_title_base64(meta_lines).title
  IN  << <<"<script>">>,
         <<"window.location.href=">> \o redirect_url,
         <<"</script>">>,
         <<"<a href=">> \o redirect_url >>

\* update_configs.update_index_file(index_path, meta_lines, configs) : the file
\* after the call; layout is the hash layout of the process
U_update_index_file(meta_lines, configs, layout) ==
  File(meta_lines \o build_redirect_lines(meta_lines) \o SortedSetLower(configs, layout))

(***************************************************************************)
(* Inputs : descriptor lines a source can publish                          *)
(***************************************************************************)
\* vless://u1@h1:443?q1#la and the same descriptor labelled lb
VlessA == <<"vless", "://", "u1", "@", "h1", ":", "443", "?", "q1", "#", "la">>

VlessB == <<"vless", "://", "u1", "@", "h1", ":", "443", "?", "q1", "#", "lb">>

\* the same endpoint with the host in upper case
VlessUpper == <<"vless", "://", "u1", "@", "H1", ":", "443", "?", "q1", "#", "la">>

\* vless://h1#la?x and vless://h1#lb : no query, a "?" inside the first label
VlessFragQ == <<"vless", "://", "h1", "#", "la", "?", "x">>

VlessFragB == <<"vless", "://", "h1", "#", "lb">>

\* vless://u1@[v6:443 : the IPv6 bracket is not closed
VlessBracket == <<"vless", "://", "u1", "@", "[", "v6", ":", "443">>

\* vless://u1@h1:abc#la : the port is not a number
VlessBadPort == <<"vless", "://", "u1", "@", "h1", ":", "abc", "#", "la">>

\* vless://u2@h1:443?q1#la : the endpoint of VlessA with another credential
VlessCred == <<"vless", "://", "u2", "@", "h1", ":", "443", "?", "q1", "#", "la">>

\* hy2://u1@h2:443#la
Hy2A == <<"hy2", "://", "u1", "@", "h2", ":", "443", "#", "la">>

\* hy2://u1@h2:0#la : port 0
Hy2PortZero == <<"hy2", "://", "u1", "@", "h2", ":", "0", "#", "la">>

\* vmess://base64({"add": "h1", "port": "abc", "ps": "la"}) : the port is a text
VmessPortText == <<"vmess", "://", "b64", "{", "add", "s:h1", "port", "s:abc", "ps", "s:la", "}">>

\* vmess://base64({"add": "h1", "port": 443, "ps": "la"}), and labelled lb
VmessA == <<"vmess", "://", "b64", "{", "add", "s:h1", "port", "443", "ps", "s:la", "}">>

VmessB == <<"vmess", "://", "b64", "{", "add", "s:h1", "port", "443", "ps", "s:lb", "}">>

\* the same payload as VmessA with the label written first
VmessPsFirst == <<"vmess", "://", "b64", "{", "ps", "s:lc", "add", "s:h1", "port", "443", "}">>

\* vmess://base64([1]) : JSON, but a list
VmessList == <<"vmess", "://", "b64", "[", "1", "]">>

\* vmess://not-valid-base64!!!
VmessBadB64 == <<"vmess", "://", "!!">>

\* vmess://base64(not json)
VmessNotJson == <<"vmess", "://", "b64", "nojson">>

Lines ==
  {VlessA, VlessB, VlessUpper, VlessCred, VlessFragQ, VlessFragB, VlessBracket,
   VlessBadPort, Hy2A, Hy2PortZero, VmessPortText,
   VmessA, VmessB, VmessPsFirst, VmessList, VmessBadB64, VmessNotJson}

\* the lines of Lines no decoder can decode
Malformed == {VlessBracket, VmessList, VmessBadB64, VmessNotJson}

\* total number of lines the sources publish in a run
MaxLines == 2

RECURSIVE SeqsUpTo(_, _)
SeqsUpTo(S, n) ==
  IF n = 0 THEN {<<>>}
  ELSE LET shorter == SeqsUpTo(S, n - 1) IN
       shorter \cup {Append(q, x) : q \in {r \in shorter : Len(r) = n - 1}, x \in S}

\* what the two sources publish : a text of at most MaxLines lines cut in two
Feeds ==
  UNION {{<<Take(q, k), Drop(q, k)>> : k \in 0..Len(q)} : q \in SeqsUpTo(Lines, MaxLines)}

\* a previous artifact in the layout collector.py expects : header, blank line,
\* one descriptor, blank line, script block
OldConfig == <<"vless", "://", "old", "@", "h9", ":", "443", "#", "lo">>

TitleLine == <<"#", "profile-title:", "base64:", "T1">>

SampleArtifact ==
  << TitleLine, <<"#", "profile-update-interval:">>, <<>>, OldConfig, <<>>,
     <<"<script>">>, <<"go()">>, <<"</script>">> >>

(***************************************************************************)
(* State                                                                   *)
(***************************************************************************)
VARIABLES
  pipeline,        \* "collector" or "update" : the script that runs; in the
                   \* writer stage the script that wrote last, "writer" before
  feed,            \* feed[i] : the lines source i publishes
  layout,          \* the hash layout of the process, see SetIter
  artifact,        \* Index.html
  pc,              \* "fetch", "process", "dedup", "probe", "done", "crashed";
                   \* "write" and "pool" in the specifications of one stage
  srcIdx,          \* the next source to fetch
  fetchLog,        \* fetchLog[i] : "pending", "fail", or how the fetched text was
                   \* published, "plain" or "b64"
  combined,        \* collector : combined_content, as lines
  all_configs,     \* update_configs : all_configs
  normLog,         \* update_configs : the (config, normalized) pairs of lines 393-397
  configs,         \* collector : configs, the records process_configs returns
  unique_configs,  \* update_configs : unique_configs
  task,            \* task[i] : "queued", "running", "true", "false" or "raise"
  healthy_configs, \* healthy_configs of either script
  prevArtifact,    \* the artifact before the last call of update_index_file
  lastWritten,     \* the descriptor list given to the last call
  writes,          \* number of calls of update_index_file so far
  submitted,       \* probe stage : probes created and not yet started
  inflight,        \* probe stage : probes running
  slots,           \* probe stage : semaphore slots or pool workers taken
  finished         \* probe stage : probes finished

vars ==
  <<pipeline, feed, layout, artifact, pc, srcIdx, fetchLog, combined, all_configs,
    normLog, configs, unique_configs, task, healthy_configs, prevArtifact,
    lastWritten, writes, submitted, inflight, slots, finished>>

runVars ==
  <<pc, srcIdx, fetchLog, combined, all_configs, normLog, configs, unique_configs,
    task, healthy_configs>>

writerVars == <<prevArtifact, lastWritten, writes>>

probeVars == <<submitted, inflight, slots, finished>>

(***************************************************************************)
(* A run of collector.main or update_configs.main                          *)
(***************************************************************************)
Init ==
  /\ pipeline \in {"collector", "update"}
  /\ feed \in Feeds
  /\ layout \in (IF pipeline = "update" THEN {"slots", "probe"} ELSE {"slots"})
  /\ artifact \in {NoFile, File(SampleArtifact)}
  /\ pc = "fetch"
  /\ srcIdx = 1
  /\ fetchLog = [i \in 1..Len(SOURCES) |-> "pending"]
  /\ combined = <<>>
  /\ all_configs = <<>>
  /\ normLog = <<>>
  /\ configs = <<>>
  /\ unique_configs = <<>>
  /\ task = <<>>
  /\ healthy_configs = <<>>
  /\ prevArtifact = NoFile
  /\ lastWritten = <<>>
  /\ writes = 0
  /\ submitted = 0
  /\ inflight = 0
  /\ slots = 0
  /\ finished = 0

\* bookkeeping of a call of update_index_file with the list cfgs
Called(cfgs) ==
  /\ prevArtifact' = artifact
  /\ lastWritten' = cfgs
  /\ writes' = writes + 1

\* pc after the loop body for source srcIdx
AfterFetch(next) == IF srcIdx = Len(SOURCES) THEN next ELSE "fetch"

\* a text some line of which holds one of the prefixes
HoldsPrefix(text, prefixes) ==
  \E i \in 1..Len(text) : \E j \in 1..(Len(text[i]) - 1) :
    text[i][j] \in prefixes /\ text[i][j + 1] = "://"

\* the prefixes collector.fetch_subscriptions looks for in a decoded blob; "ss://"
\* is also found inside "vless://" and "vmess://"
C_BLOB_PREFIXES == {"vless", "vmess", "trojan", "ss", "tuic", "hysteria"}

\* fetch_subscriptions, lines 25-39 : the text kept of a response that is the given
\* text, published plainly or as one base64 blob
C_content(text, enc) ==
  IF enc = "plain" \/ HoldsPrefix(text, C_BLOB_PREFIXES) THEN text ELSE << <<"blob">> >>

\* fetch_subscriptions, one iteration of the loop : a request that fails
\* (any exception) is logged and skipped
C_Fetch ==
  /\ pipeline = "collector" /\ pc = "fetch"
  /\ \E outcome \in {"ok", "error", "timeout"}, enc \in {"plain", "b64"} :
       /\ combined' = IF outcome = "ok" THEN combined \o C_content(feed[srcIdx], enc)
                      ELSE combined
       /\ fetchLog' = [fetchLog EXCEPT ![srcIdx] = IF outcome = "ok" THEN enc ELSE "fail"]
  /\ srcIdx' = srcIdx + 1
  /\ pc' = AfterFetch("process")
  /\ UNCHANGED <<pipeline, feed, layout, artifact, all_configs, normLog, configs,
                 unique_configs, task, healthy_configs, writerVars, probeVars>>

\* process_configs(raw_content), then filter_healthy_configs up to the creation
\* of the probe coroutines
C_Process ==
  /\ pipeline = "collector" /\ pc = "process"
  /\ configs' = process_configs(combined)
  /\ task' = [i \in 1..Len(configs') |-> "queued"]
  /\ pc' = "probe"
  /\ UNCHANGED <<pipeline, feed, layout, artifact, srcIdx, fetchLog, combined,
                 all_configs, normLog, unique_configs, healthy_configs, writerVars,
                 probeVars>>

Running == {i \in DOMAIN task : task[i] = "running"}

Queued == {i \in DOMAIN task : task[i] = "queued"}

\* a semaphore that lets every coroutine in
SemaphoreNeverFull(held) == TRUE

\* asyncio.Semaphore(50) : acquire succeeds while a slot is free
SemaphoreFree(held) == held < SEMAPHORE_SLOTS

\* sem_tcp_ping : the coroutines enter "async with semaphore" in creation order
C_StartProbe ==
  /\ pipeline = "collector" /\ pc = "probe"
  /\ Queued # {}
  /\ SemaphoreFree(Cardinality(Running))
  /\ LET i == CHOOSE k \in Queued : \A m \in Queued : k <= m IN
       task' = [task EXCEPT ![i] = "running"]
  /\ UNCHANGED <<pipeline, feed, layout, artifact, pc, srcIdx, fetchLog, combined,
                 all_configs, normLog, configs, unique_configs, healthy_configs,
                 writerVars, probeVars>>

\* tcp_ping returns : True, or False on error and on timeout; the slot is released
C_FinishProbe ==
  /\ pipeline = "collector" /\ pc = "probe"
  /\ \E i \in Running : \E res \in tcp_ping_results(configs[i]) :
       task' = [task EXCEPT ![i] = res]
  /\ UNCHANGED <<pipeline, feed, layout, artifact, pc, srcIdx, fetchLog, combined,
                 all_configs, normLog, configs, unique_configs, healthy_configs,
                 writerVars, probeVars>>

\* the links of the descriptors whose probe returned True, in the order of configs
RECURSIVE HealthyLinks(_, _)
HealthyLinks(cfgs, results) ==
  IF cfgs = <<>> THEN <<>>
  ELSE (IF Head(results) = "true" THEN <<Head(cfgs).link>> ELSE <<>>)
         \o HealthyLinks(Tail(cfgs), Tail(results))

\* collector.main, lines 287-291 : one mock descriptor when nothing is healthy
WithMock(healthy) == IF Len(healthy) = 0 THEN Append(healthy, MOCK_CONFIG) ELSE healthy

\* asyncio.gather returns, zip(configs, results), the mock, update_index_file
C_Gather ==
  /\ pipeline = "collector" /\ pc = "probe"
  /\ \A i \in DOMAIN task : task[i] \in {"true", "false"}
  /\ healthy_configs' = WithMock(HealthyLinks(configs, task))
  /\ artifact' = C_update_index_file(artifact, healthy_configs')
  /\ Called(healthy_configs')
  /\ pc' = "done"
  /\ UNCHANGED <<pipeline, feed, layout, srcIdx, fetchLog, combined, all_configs,
                 normLog, configs, unique_configs, task, probeVars>>

\* fetch_source, lines 153-174 : the text scanned for a response that is the given
\* text, published plainly or as one base64 blob
U_content(text, enc) ==
  IF enc = "plain" \/ HoldsPrefix(text, U_PREFIXES) THEN text ELSE << <<"blob">> >>

\* main, lines 393-397, over the lines of one source : the normalized descriptors
\* appended, the (config, normalized) pairs, and whether normalize_config raised
RECURSIVE NormalizeAll(_, _, _)
NormalizeAll(fetched, out, log) ==
  IF fetched = <<>> THEN [raised |-> FALSE, out |-> out, log |-> log]
  ELSE LET n == normalize_config(Head(fetched)) IN
       IF n.r = "raise" THEN [raised |-> TRUE, out |-> out, log |-> log]
       ELSE IF n.r = "none" THEN NormalizeAll(Tail(fetched), out, log)
       ELSE NormalizeAll(Tail(fetched), Append(out, n.s),
                         Append(log, [original |-> Head(fetched), normalized |-> n.s]))

\* main, one iteration of "for src in SOURCES" : fetch_source, which returns [] when
\* the download fails, then normalize_config on every fetched line; an exception
\* of normalize_config leaves main
U_FetchSource ==
  /\ pipeline = "update" /\ pc = "fetch"
  /\ \E outcome \in {"ok", "error", "timeout"}, enc \in {"plain", "b64"} :
       LET fetched == IF outcome = "ok" THEN KeptLines(U_content(feed[srcIdx], enc))
                      ELSE <<>>
           n == NormalizeAll(fetched, all_configs, normLog)
       IN  /\ fetchLog' = [fetchLog EXCEPT ![srcIdx] = IF outcome = "ok" THEN enc ELSE "fail"]
           /\ all_configs' = n.out
           /\ normLog' = n.log
           /\ pc' = IF n.raised THEN "crashed" ELSE AfterFetch("dedup")
  /\ srcIdx' = srcIdx + 1
  /\ UNCHANGED <<pipeline, feed, layout, artifact, combined, configs, unique_configs,
                 task, healthy_configs, writerVars, probeVars>>

\* update_index_file as main calls it : meta was read from the artifact when main
\* started and nothing wrote the artifact since; the ValueError of
\* _extract_profile_title_base64 leaves main before the file is opened
U_WriteResult(file, cfgs, lay) ==
  LET meta == read_existing_meta(file) IN
  IF _extract_profile_title_base64(meta).ok
    THEN [pc |-> "done", file |-> U_update_index_file(meta, cfgs, lay)]
    ELSE [pc |-> "crashed", file |-> file]

\* main, lines 398-406 : nothing fetched writes an empty body and returns;
\* otherwise the descriptors are deduplicated, sorted and submitted to the pool
U_Dedup ==
  /\ pipeline = "update" /\ pc = "dedup"
  /\ IF all_configs = <<>>
       THEN /\ artifact' = U_WriteResult(artifact, <<>>, layout).file
            /\ pc' = U_WriteResult(artifact, <<>>, layout).pc
            /\ Called(<<>>)
            /\ UNCHANGED <<unique_configs, task>>
       ELSE /\ unique_configs' = SortedSetLower(all_configs, layout)
            /\ task' = [i \in 1..Len(unique_configs') |-> "queued"]
            /\ pc' = "probe"
            /\ UNCHANGED <<artifact, writerVars>>
  /\ UNCHANGED <<pipeline, feed, layout, srcIdx, fetchLog, combined, all_configs,
                 normLog, configs, healthy_configs, probeVars>>

\* ThreadPoolExecutor(max_workers=HEALTH_CHECK_WORKERS) : a queued call starts when
\* fewer than max_workers calls are running
WorkerFree(running) == running < HEALTH_CHECK_WORKERS

\* a worker thread takes the oldest queued call
U_StartProbe ==
  /\ pipeline = "update" /\ pc = "probe"
  /\ Queued # {}
  /\ WorkerFree(Cardinality(Running))
  /\ LET i == CHOOSE k \in Queued : \A m \in Queued : k <= m IN
       task' = [task EXCEPT ![i] = "running"]
  /\ UNCHANGED <<pipeline, feed, layout, artifact, pc, srcIdx, fetchLog, combined,
                 all_configs, normLog, configs, unique_configs, healthy_configs,
                 writerVars, probeVars>>

\* a loop that loses what it kept when a call fails
KeepUntilFailure(healthy, config, res) ==
  IF res = "true" THEN Append(healthy, config) ELSE <<>>

\* main, lines 408-413 : a future whose result is true is kept; a result of false
\* and an exception of the call are skipped
KeepIfHealthy(healthy, config, res) ==
  IF res = "true" THEN Append(healthy, config) ELSE healthy

\* is_healthy returns or raises, and as_completed hands the future to main
U_FinishProbe ==
  /\ pipeline = "update" /\ pc = "probe"
  /\ \E i \in Running : \E res \in is_healthy_results(unique_configs[i]) :
       /\ task' = [task EXCEPT ![i] = res]
       /\ healthy_configs' = KeepIfHealthy(healthy_configs, unique_configs[i], res)
  /\ UNCHANGED <<pipeline, feed, layout, artifact, pc, srcIdx, fetchLog, combined,
                 all_configs, normLog, configs, unique_configs, writerVars, probeVars>>

\* main, lines 414-416 : every future is done, update_index_file
U_Write ==
  /\ pipeline = "update" /\ pc = "probe"
  /\ \A i \in DOMAIN task : task[i] \in {"true", "false", "raise"}
  /\ artifact' = U_WriteResult(artifact, healthy_configs, layout).file
  /\ pc' = U_WriteResult(artifact, healthy_configs, layout).pc
  /\ Called(healthy_configs)
  /\ UNCHANGED <<pipeline, feed, layout, srcIdx, fetchLog, combined, all_configs,
                 normLog, configs, unique_configs, task, healthy_configs, probeVars>>

Next ==
  \/ C_Fetch
  \/ C_Process
  \/ C_StartProbe
  \/ C_FinishProbe
  \/ C_Gather
  \/ U_FetchSource
  \/ U_Dedup
  \/ U_StartProbe
  \/ U_FinishProbe
  \/ U_Write

Spec == Init /\ [][Next]_vars

(***************************************************************************)
(* The writer stage alone : update_index_file of either script, called     *)
(* again and again on the artifact with arbitrary descriptor lists         *)
(***************************************************************************)
\* number of calls of update_index_file in a row
MaxWrites == 3

\* length of the descriptor list given to one call
MaxBody == 2

\* the descriptor lists a call can be given : the empty list, case variants,
\* repetitions
DescriptorLists == SeqsUpTo({VlessA, VlessUpper, Hy2A}, MaxBody)

\* a title line that writes BASE64: in capitals
TitleUpperLine == <<"#", "profile-title:", "BASE64:", "T1">>

\* the artifacts the writers can find : none, the layout of collector.py, a header
\* directly followed by a descriptor, a bare descriptor, a capitalised title
WriterArtifacts ==
  {NoFile, File(SampleArtifact), File(<<TitleLine, OldConfig>>), File(<<OldConfig>>),
   File(<<TitleUpperLine, <<>>, OldConfig>>)}

InitWriter ==
  /\ pipeline = "writer"
  /\ feed = << <<>>, <<>> >>
  /\ layout \in {"slots", "probe"}
  /\ artifact \in WriterArtifacts
  /\ pc = "write"
  /\ srcIdx = 1
  /\ fetchLog = [i \in 1..Len(SOURCES) |-> "pending"]
  /\ combined = <<>>
  /\ all_configs = <<>>
  /\ normLog = <<>>
  /\ configs = <<>>
  /\ unique_configs = <<>>
  /\ task = <<>>
  /\ healthy_configs = <<>>
  /\ prevArtifact = NoFile
  /\ lastWritten = <<>>
  /\ writes = 0
  /\ submitted = 0
  /\ inflight = 0
  /\ slots = 0
  /\ finished = 0

\* collector.update_index_file(new_configs); pipeline records the script that
\* made the call
W_CollectorWrite ==
  /\ pc = "write" /\ writes < MaxWrites
  /\ \E new_configs \in DescriptorLists :
       /\ artifact' = C_update_index_file(artifact, new_configs)
       /\ Called(new_configs)
  /\ pipeline' = "collector"
  /\ UNCHANGED <<feed, layout, runVars, probeVars>>

\* update_configs : read_existing_meta, then update_index_file(meta, cfgs)
W_UpdateWrite ==
  /\ pc = "write" /\ writes < MaxWrites
  /\ \E cfgs \in DescriptorLists :
       /\ artifact' = U_WriteResult(artifact, cfgs, layout).file
       /\ pc' = IF U_WriteResult(artifact, cfgs, layout).pc = "done" THEN "write"
                ELSE "crashed"
       /\ Called(cfgs)
  /\ pipeline' = "update"
  /\ UNCHANGED <<feed, layout, srcIdx, fetchLog, combined, all_configs, normLog,
                 configs, unique_configs, task, healthy_configs, probeVars>>

NextWriter == W_CollectorWrite \/ W_UpdateWrite

SpecWriter == InitWriter /\ [][NextWriter]_vars

(***************************************************************************)
(* The probe stage alone, with as many probes as the limits need : the     *)
(* probes are counted, not told apart                                      *)
(***************************************************************************)
\* number of descriptors submitted to the probe stage
MaxProbes == 52

InitProbes ==
  /\ pipeline \in {"collector", "update"}
  /\ feed = << <<>>, <<>> >>
  /\ layout = "slots"
  /\ artifact = NoFile
  /\ pc = "pool"
  /\ srcIdx = 1
  /\ fetchLog = [i \in 1..Len(SOURCES) |-> "pending"]
  /\ combined = <<>>
  /\ all_configs = <<>>
  /\ normLog = <<>>
  /\ configs = <<>>
  /\ unique_configs = <<>>
  /\ task = <<>>
  /\ healthy_configs = <<>>
  /\ prevArtifact = NoFile
  /\ lastWritten = <<>>
  /\ writes = 0
  /\ submitted \in 0..MaxProbes
  /\ inflight = 0
  /\ slots = 0
  /\ finished = 0

\* "async with semaphore" is left, or the worker's call returns or raises : the
\* slot is given back whatever the outcome of the probe
Released(held, outcome) == held - 1

\* sem_tcp_ping : "async with semaphore" is entered and tcp_ping starts
P_Acquire ==
  /\ pipeline = "collector" /\ pc = "pool"
  /\ submitted > 0
  /\ SemaphoreFree(slots)
  /\ submitted' = submitted - 1
  /\ slots' = slots + 1
  /\ inflight' = inflight + 1
  /\ UNCHANGED <<pipeline, feed, layout, artifact, runVars, writerVars, finished>>

\* tcp_ping ends : connected, refused or timed out
P_Release ==
  /\ pipeline = "collector" /\ pc = "pool"
  /\ inflight > 0
  /\ \E outcome \in {"ok", "error", "timeout"} : slots' = Released(slots, outcome)
  /\ inflight' = inflight - 1
  /\ finished' = finished + 1
  /\ UNCHANGED <<pipeline, feed, layout, artifact, runVars, writerVars, submitted>>

\* a worker of the pool takes a queued is_healthy call
P_WorkerStart ==
  /\ pipeline = "update" /\ pc = "pool"
  /\ submitted > 0
  /\ WorkerFree(slots)
  /\ submitted' = submitted - 1
  /\ slots' = slots + 1
  /\ inflight' = inflight + 1
  /\ UNCHANGED <<pipeline, feed, layout, artifact, runVars, writerVars, finished>>

\* is_healthy returns or raises, and the worker is free again
P_WorkerDone ==
  /\ pipeline = "update" /\ pc = "pool"
  /\ inflight > 0
  /\ \E outcome \in {"ok", "error", "timeout"} : slots' = Released(slots, outcome)
  /\ inflight' = inflight - 1
  /\ finished' = finished + 1
  /\ UNCHANGED <<pipeline, feed, layout, artifact, runVars, writerVars, submitted>>

NextProbes == P_Acquire \/ P_Release \/ P_WorkerStart \/ P_WorkerDone

SpecProbes == InitProbes /\ [][NextProbes]_vars

(***************************************************************************)
(* The selector stage.  Neither script under src/ scores or truncates : the *)
(* selector is modelled from sections 4.4 and 4.6 of the specification.    *)
(* A survivor is a ScoredDescriptor [score, descriptor]; configs holds the *)
(* survivors and healthy_configs the selection.                            *)
(***************************************************************************)
\* the configured cap
MAX_OUTPUT == 2

\* number of descriptors that survive to the selector
MaxSurvivors == 3

\* the scores of the survivors : a penalised one, two equal ones, a high one
Scores == {0 - 100, 5, 10}

\* sequences of at most n different descriptors, each with a score
RECURSIVE ScoredSeqs(_)
ScoredSeqs(n) ==
  IF n = 0 THEN {<<>>}
  ELSE LET shorter == ScoredSeqs(n - 1) IN
       shorter \cup
         {Append(q, [score |-> sc, descriptor |-> d]) :
            q \in {r \in shorter : Len(r) = n - 1}, sc \in Scores,
            d \in {VlessA, VlessUpper, Hy2A, VmessA}}

\* no descriptor twice : deduplication ran before
DistinctDescriptors(q) ==
  \A i \in 1..Len(q), j \in 1..Len(q) : i # j => q[i].descriptor # q[j].descriptor

\* the first MAX_OUTPUT entries of a list
TakeFirst(xs) == Take(xs, IF Len(xs) < MAX_OUTPUT THEN Len(xs) ELSE MAX_OUTPUT)

\* insertion behind every entry whose score is not lower : descending, stable
RECURSIVE InsertByScore(_, _)
InsertByScore(sorted, x) ==
  IF sorted = <<>> THEN <<x>>
  ELSE IF Head(sorted).score < x.score THEN <<x>> \o sorted
  ELSE <<Head(sorted)>> \o InsertByScore(Tail(sorted), x)

\* sort by score descending, stable on ties
RECURSIVE SortByScore(_)
SortByScore(xs) ==
  IF xs = <<>> THEN <<>>
  ELSE InsertByScore(SortByScore(Take(xs, Len(xs) - 1)), xs[Len(xs)])

\* a selector that truncates without ranking
SelectorUnranked(survivors) == TakeFirst(survivors)

\* section 4.6 : sort by score descending, then take the first MAX_OUTPUT entries
Selector(survivors) == TakeFirst(SortByScore(survivors))

\* the wire strings of a selection
DescriptorsOf(selection) == [i \in 1..Len(selection) |-> selection[i].descriptor]

InitSelector ==
  /\ pipeline = "collector"
  /\ feed = << <<>>, <<>> >>
  /\ layout = "slots"
  /\ artifact = File(SampleArtifact)
  /\ pc = "select"
  /\ srcIdx = 1
  /\ fetchLog = [i \in 1..Len(SOURCES) |-> "pending"]
  /\ combined = <<>>
  /\ all_configs = <<>>
  /\ normLog = <<>>
  /\ configs \in {q \in ScoredSeqs(MaxSurvivors) : DistinctDescriptors(q)}
  /\ unique_configs = <<>>
  /\ task = <<>>
  /\ healthy_configs = <<>>
  /\ prevArtifact = NoFile
  /\ lastWritten = <<>>
  /\ writes = 0
  /\ submitted = 0
  /\ inflight = 0
  /\ slots = 0
  /\ finished = 0

\* the selector runs on the survivors
S_Select ==
  /\ pc = "select"
  /\ healthy_configs' = Selector(configs)
  /\ pc' = "selected"
  /\ UNCHANGED <<pipeline, feed, layout, artifact, srcIdx, fetchLog, combined,
                 all_configs, normLog, configs, unique_configs, task, writerVars,
                 probeVars>>

\* the selection is written by collector.update_index_file
S_Write ==
  /\ pc = "selected"
  /\ artifact' = C_update_index_file(artifact, DescriptorsOf(healthy_configs))
  /\ Called(DescriptorsOf(healthy_configs))
  /\ pc' = "written"
  /\ UNCHANGED <<pipeline, feed, layout, srcIdx, fetchLog, combined, all_configs,
                 normLog, configs, unique_configs, task, healthy_configs, probeVars>>

NextSelector == S_Select \/ S_Write

SpecSelector == InitSelector /\ [][NextSelector]_vars

(***************************************************************************)
(* Vocabulary of the claims                                                *)
(***************************************************************************)
\* a line of the artifact that is a descriptor
IsDescriptorLine(line) == Len(line) >= 2 /\ line[2] = "://"

\* the body of the artifact : its descriptor lines, in order
RECURSIVE DescriptorLines(_)
DescriptorLines(lines) ==
  IF lines = <<>> THEN <<>>
  ELSE (IF IsDescriptorLine(Head(lines)) THEN <<Head(lines)>> ELSE <<>>)
         \o DescriptorLines(Tail(lines))

\* the probes that succeeded
HealthyIdx == {i \in DOMAIN task : task[i] = "true"}

\* the descriptor probe i was made for, as it is written to the body
LinkOf(i) == IF pipeline = "collector" THEN configs[i].link ELSE unique_configs[i]

\* the text fetched from the sources so far, in source order
RECURSIVE FetchedFrom(_)
FetchedFrom(i) ==
  IF i = 0 THEN <<>>
  ELSE FetchedFrom(i - 1)
         \o (IF fetchLog[i] \in {"plain", "b64"}
               THEN (IF pipeline = "collector" THEN C_content(feed[i], fetchLog[i])
                     ELSE U_content(feed[i], fetchLog[i]))
               ELSE <<>>)

FetchedText == FetchedFrom(Len(SOURCES))

\* the fields of a vmess line other than the label, as a set of <<key, value>>
VmessFields(line) ==
  LET d == JsonLoads(B64Decode(Drop(line, 2)).text).kv IN
  {d[i] : i \in {j \in 1..Len(d) : d[j][1] # "ps"}}

IsVmessObject(line) ==
  /\ Len(line) >= 2 /\ line[1] = "vmess"
  /\ B64Decode(Drop(line, 2)).ok
  /\ JsonLoads(B64Decode(Drop(line, 2)).text).t = "obj"

\* a URI-style line without its fragment
WithoutFragment(line) ==
  IF Contains(line, "#") THEN Take(line, IndexOf(line, "#") - 1) ELSE line

\* two lines that differ only in their label
SameButLabel(a, b) ==
  /\ a # b
  /\ \/ IsVmessObject(a) /\ IsVmessObject(b) /\ VmessFields(a) = VmessFields(b)
     \/ a[1] # "vmess" /\ b[1] # "vmess" /\ WithoutFragment(a) = WithoutFragment(b)

\* the pipeline's decoder yields a descriptor for the line
Parseable(line) ==
  IF pipeline = "collector" THEN Accepted(ParseLine(line))
  ELSE HasKnownPrefix(line) /\ normalize_config(line).r = "ok"

\* how many descriptors made from the lines a and b are left after deduplication
Survivors(a, b) ==
  IF pipeline = "collector"
    THEN Cardinality({i \in DOMAIN configs : configs[i].original \in {a, b}})
    ELSE Cardinality({normalize_config(a).s, normalize_config(b).s}
                       \cap Range(unique_configs))

\* C1: whenever two collected, parseable descriptors differ only in their label,
\* exactly one of them is left after label rewriting and deduplication, in both
\* pipelines.
C1_LabelVariantsCollapse ==
  pc \in {"probe", "done"} /\ (pipeline = "collector" \/ all_configs # <<>>) =>
    \A a \in Range(FetchedText), b \in Range(FetchedText) :
      SameButLabel(a, b) /\ Parseable(a) /\ Parseable(b) => Survivors(a, b) = 1

\* C2: every descriptor line of the written artifact is a descriptor collected in
\* this run whose own probe succeeded.
C2_BodyOnlyHealthy ==
  pc = "done" /\ artifact.exists =>
    \A k \in 1..Len(artifact.lines) :
      IsDescriptorLine(artifact.lines[k]) =>
        \E i \in HealthyIdx : LinkOf(i) = artifact.lines[k]

\* the lines of s that are not in S
RECURSIVE SeqFilterOut(_, _)
SeqFilterOut(s, S) ==
  IF s = <<>> THEN <<>>
  ELSE (IF Head(s) \in S THEN <<>> ELSE <<Head(s)>>) \o SeqFilterOut(Tail(s), S)

\* C3: an undecodable line never aborts the run, and the other lines are processed
\* as if it were absent.
C3_UndecodableLineSkipped ==
  /\ pc # "crashed"
  /\ pipeline = "collector" /\ pc \in {"probe", "done"} =>
       configs = process_configs(SeqFilterOut(FetchedText, Malformed))
  /\ pipeline = "update" /\ pc \in {"dedup", "probe", "done"} =>
       all_configs = NormalizeAll(KeptLines(SeqFilterOut(FetchedText, Malformed)),
                                  <<>>, <<>>).out

\* the rewritten vmess line keeps every field of the original but the label, which
\* is the remark
LabelOnlyChanged(original, rewritten, remark) ==
  LET old == JsonLoads(B64Decode(Drop(original, 2)).text).kv
      new == JsonLoads(B64Decode(Drop(rewritten, 2)).text)
  IN  /\ B64Decode(Drop(rewritten, 2)).ok
      /\ new.t = "obj"
      /\ DictKeys(new.kv) = DictKeys(old) \cup {"ps"}
      /\ \A k \in DictKeys(old) \ {"ps"} : DictGet(new.kv, k) = DictGet(old, k)
      /\ DictGet(new.kv, "ps") = remark

\* C4: after every write over an existing artifact, the header lines and the tail
\* lines of the artifact are the lines they were before the write, in the same
\* order.
C4_HeaderAndTailPreserved ==
  writes > 0 /\ pc = "write" /\ prevArtifact.exists =>
    /\ artifact.exists
    /\ LeadingComments(artifact.lines) = LeadingComments(prevArtifact.lines)
    /\ script_part(artifact.lines) = script_part(prevArtifact.lines)

\* the artifact after the script that wrote last writes the same list once more
WrittenAgain ==
  IF pipeline = "collector" THEN C_update_index_file(artifact, lastWritten)
  ELSE U_WriteResult(artifact, lastWritten, layout).file

\* C5: writing the same descriptor list once more, the empty list included, leaves
\* the artifact exactly as the first write left it.
C5_WriterIdempotent ==
  writes > 0 /\ pc = "write" => WrittenAgain = artifact

\* C6: a run that finds no artifact ends normally and has written one : the default
\* header followed by the selected descriptors, and no script or redirect line.
C6_FreshArtifact ==
  pc = "done" /\ ~prevArtifact.exists =>
    /\ artifact.exists
    /\ artifact.lines = DEFAULT_META \o DescriptorLines(artifact.lines)
    /\ Range(DescriptorLines(artifact.lines)) = Range(lastWritten)
    /\ \A k \in 1..Len(artifact.lines) : ~HasScript(artifact.lines[k])

\* C7: a rewritten vmess descriptor decodes to the keys and values of the original
\* except 'ps', which is the configured remark, and rewriting it again changes
\* nothing.
C7_VmessRoundTrip ==
  /\ \A i \in DOMAIN configs :
       configs[i].original[1] = "vmess" =>
         /\ LabelOnlyChanged(configs[i].original, configs[i].link, REMARK_NAME)
         /\ parse_vmess(configs[i].link).link = configs[i].link
  /\ \A i \in DOMAIN normLog :
       LowerTok(normLog[i].original[1]) = "vmess" =>
         /\ LabelOnlyChanged(normLog[i].original, normLog[i].normalized, REMARK)
         /\ _remark_vmess(normLog[i].normalized).s = normLog[i].normalized

\* a vmess line whose label is not the last field was rewritten, in either script
C7_Witness ==
  \/ \E i \in DOMAIN configs : configs[i].original = VmessPsFirst
  \/ \E i \in DOMAIN normLog : normLog[i].original = VmessPsFirst

\* the descriptors whose probe succeeded, in submission order
RECURSIVE HealthyInOrder(_)
HealthyInOrder(n) ==
  IF n = 0 THEN <<>>
  ELSE HealthyInOrder(n - 1) \o (IF task[n] = "true" THEN <<LinkOf(n)>> ELSE <<>>)

\* C8: the body is the one the probe results give when the probes complete in
\* submission order, whatever order they completed in.
C8_BodyIgnoresCompletionOrder ==
  pc = "done" /\ artifact.exists /\ task # <<>> =>
    DescriptorLines(artifact.lines)
      = IF pipeline = "collector" THEN WithMock(HealthyInOrder(Len(task)))
        ELSE SortedSetLower(HealthyInOrder(Len(task)), layout)

\* the limit of the script whose probes run
ProbeLimit == IF pipeline = "collector" THEN SEMAPHORE_SLOTS ELSE HEALTH_CHECK_WORKERS

\* C9: the probes in flight never exceed the limit of the script, however many
\* descriptors were submitted, and every probe in flight holds one slot, which it
\* gives back when it ends, whatever its outcome.
C9_InFlightBounded ==
  pc = "pool" => inflight <= ProbeLimit /\ slots = inflight

\* every slot is taken, descriptors wait, and probes have ended before
C9_Witness ==
  pc = "pool" /\ inflight = ProbeLimit /\ submitted > 0 /\ finished > 0

\* C10: a failed fetch or probe leaves the other tasks alone: past the fetch stage
\* every source was attempted and the text of every source that answered was used;
\* at the end every descriptor was probed and is kept exactly when its own probe
\* succeeded.
C10_FailuresIsolated ==
  /\ pc \in {"process", "dedup", "probe", "done"} =>
       /\ \A i \in 1..Len(SOURCES) : fetchLog[i] # "pending"
       /\ pipeline = "collector" => combined = FetchedText
       /\ pipeline = "update" =>
            all_configs = NormalizeAll(KeptLines(FetchedText), <<>>, <<>>).out
  /\ pc = "done" /\ task # <<>> =>
       /\ \A i \in DOMAIN task : task[i] \in {"true", "false", "raise"}
       /\ Len(healthy_configs) = IF pipeline = "collector" /\ HealthyIdx = {}
                                   THEN 1 ELSE Cardinality(HealthyIdx)
       /\ pipeline = "collector" =>
            \A i \in HealthyIdx :
              healthy_configs[Cardinality({j \in HealthyIdx : j <= i})] = configs[i].link
       /\ pipeline = "update" =>
            Range(healthy_configs) = {unique_configs[i] : i \in HealthyIdx}
       /\ artifact.exists =>
            \A i \in DOMAIN task :
              (task[i] = "true") =>
                \E k \in 1..Len(artifact.lines) : artifact.lines[k] = LinkOf(i)

\* a fetch failed and a probe failed, and the descriptor of another probe is in the
\* written body
C10_Witness ==
  /\ pc = "done" /\ artifact.exists
  /\ \E i \in 1..Len(SOURCES) : fetchLog[i] = "fail"
  /\ \E i \in DOMAIN task : task[i] \in {"false", "raise"}
  /\ \E j \in HealthyIdx : \E k \in 1..Len(artifact.lines) : artifact.lines[k] = LinkOf(j)

\* the credential of a URI-style line : the netloc before its last "@"
CredentialOf(netloc) ==
  IF Contains(netloc, "@") THEN Take(netloc, LastIndexOf(netloc, "@") - 1) ELSE <<>>

\* what decides whether two descriptors are the same proxy : protocol, credential,
\* lower-cased host, port and the parameters of the query (transport, security,
\* SNI or host header, path or serviceName); for vmess the fields of the payload
\* other than the label
IdentityOf(line) ==
  IF LowerTok(line[1]) = "vmess" THEN <<"vmess", VmessFields(line)>>
  ELSE <<urlsplit(line).scheme,
         CredentialOf(urlsplit(line).netloc),
         Lower(HostInfoParts(Drop(urlsplit(line).netloc,
                                  LastIndexOf(urlsplit(line).netloc, "@"))).hostname),
         HostInfoParts(Drop(urlsplit(line).netloc,
                            LastIndexOf(urlsplit(line).netloc, "@"))).port,
         urlsplit(line).query>>

\* C13: two different parseable descriptors collected in a run are collapsed into
\* one by deduplication exactly when they agree on protocol, credential, lower-cased
\* host, port and transport parameters.
C13_CollapseIffSameIdentity ==
  pc \in {"probe", "done"} /\ (pipeline = "collector" \/ all_configs # <<>>) =>
    \A a \in Range(FetchedText), b \in Range(FetchedText) :
      a # b /\ Parseable(a) /\ Parseable(b) =>
        ((Survivors(a, b) = 1) <=> (IdentityOf(a) = IdentityOf(b)))

\* C14: after any write the descriptor lines found anywhere in the artifact are
\* exactly the descriptors given to that write, whatever the layout of the artifact
\* before it.
C14_BodyRegenerated ==
  writes > 0 /\ pc = "write" /\ artifact.exists =>
    Range(DescriptorLines(artifact.lines)) = Range(lastWritten)

\* a line of the script or redirect block : any line that is neither blank, nor a
\* header line, nor a descriptor
IsTailLine(line) == ~IsBlank(line) /\ ~IsComment(line) /\ ~IsDescriptorLine(line)

\* C15: in every written artifact each header line stands before each descriptor
\* line and each descriptor line before each line of the script or redirect block,
\* and a list of different descriptors gives exactly one body line each.
C15_SectionOrder ==
  writes > 0 /\ pc = "write" /\ artifact.exists =>
    /\ \A i \in 1..Len(artifact.lines), j \in 1..Len(artifact.lines) :
         /\ IsComment(artifact.lines[i]) /\ IsDescriptorLine(artifact.lines[j]) => i < j
         /\ IsDescriptorLine(artifact.lines[i]) /\ IsTailLine(artifact.lines[j]) => i < j
    /\ Cardinality(Range(lastWritten)) = Len(lastWritten) =>
         /\ Len(DescriptorLines(artifact.lines)) = Len(lastWritten)
         /\ Range(DescriptorLines(artifact.lines)) = Range(lastWritten)

\* the port a descriptor line names, as text : the "port" field of a vmess payload,
\* the text behind the host of a URI-style line (empty when there is none)
PortTextOf(line) ==
  IF LowerTok(line[1]) = "vmess"
    THEN FormatTok(DictGet(JsonLoads(B64Decode(Drop(line, 2)).text).kv, "port"))
    ELSE HostInfoParts(Drop(urlsplit(line).netloc,
                            LastIndexOf(urlsplit(line).netloc, "@"))).port

\* the port of the line is 0 or is not a number
HasBadPort(line) ==
  /\ PortTextOf(line) \notin {<<>>, <<"None">>}
  /\ \/ PortTextOf(line) = <<"0">>
     \/ ~(Len(PortTextOf(line)) = 1 /\ IsNumeral(PortTextOf(line)[1]))

\* C16: no descriptor line of the written body names a port that is 0 or not a
\* number, whatever its protocol and whatever its probe answered.
C16_NoBadPortInBody ==
  pc = "done" /\ artifact.exists =>
    \A k \in 1..Len(artifact.lines) :
      IsDescriptorLine(artifact.lines[k]) => ~HasBadPort(artifact.lines[k])

\* the run has ended : main returned or was left by an exception
Ended == pc \in {"done", "crashed"}

\* C11: a run ends only by returning from main, with every probe finished and the
\* artifact written by the one execution of the writer stage; the writer stage is
\* never executed twice.
C11_EndsOnlyWritten ==
  /\ writes <= 1
  /\ Ended =>
       /\ pc = "done"
       /\ \A i \in DOMAIN task : task[i] \in {"true", "false", "raise"}
       /\ writes = 1
       /\ artifact.exists

\* the survivors the selection leaves out
LeftOut == {configs[i] : i \in 1..Len(configs)} \ {healthy_configs[i] : i \in 1..Len(healthy_configs)}

====
